---- MODULE Spec2Model ----
(***************************************************************************)
(* lastfm_backup.py: the favourites dump (one shot) and the resumable,     *)
(* time-windowed scrobbles dump, with the retry helper _get, the two-file  *)
(* checkpoint (scrobbles.json, scrobbles_state.json), process termination  *)
(* at any step and re-invocation in the same working directory.            *)
(*                                                                         *)
(* Python dicts are TLA+ records; a key a dict lacks is a field the record *)
(* lacks (a KeyError is a field outside DOMAIN).  None is the empty set    *)
(* and a present optional value x is {x}.  Timestamps are integers: the    *)
(* API's 'uts' strings are decimal numerals and int() reads them back.     *)
(***************************************************************************)
EXTENDS Integers, Sequences, FiniteSets, TLC

(* ------------------------------ bounds -------------------------------- *)
\* Longest remote scrobble history (entries of user.getrecenttracks) of the
\* runs that start after the favourites were dumped.
MaxRecords == 12
\* Longest remote scrobble history of the runs of the whole script.
MaxShort == 3
\* Entries per recent-tracks page (the code asks for limit=200).
PageSize == 1
\* Longest remote loved-tracks list.
MaxFav == 2
\* Entries per loved-tracks page (the code asks for limit=1000).
FavPageSize == 1

\* Longest history stored by an earlier run in the directory.
MaxPrior == 2

(* ------------------------- program constants -------------------------- *)
\* Mutant of MaxAttempts: one attempt too many (range(max_attempts + 1)).
MaxAttempts_OneMore == 5 + 1

\* _get(url, max_attempts=5)
MaxAttempts == 5
\* delay = 1
InitialDelay == 1
\* delay = min(delay * 2, 60)
DelayCap == 60
\* if (cur_page % 10 == 0) or (cur_page == total)
CheckpointEvery == 10

USERNAME == "user"

\* Another account, whose run may have used the same working directory.
OTHERNAME == "other"

None == {}
Some(x) == {x}
Val(o) == CHOOSE x \in o : TRUE

Min(a, b) == IF a <= b THEN a ELSE b

(* --------------------------- remote data ------------------------------ *)
\* Timestamp of the oldest entry of a history.
LowTimestamps == {1, 2}

\* A complete raw track of user.getrecenttracks (artist/#text, name,
\* album/#text, date/uts, and fields the backup does not keep, such as url).
RawTrack(nm, ts) ==
    [artist |-> "a", name |-> nm, album |-> "l", date |-> ts, url |-> "http"]

\* The currently playing entry: no date, flagged @attr.nowplaying.
NowPlayingTrack ==
    [artist |-> "a", name |-> "t", album |-> "l", nowplaying |-> "true", url |-> "http"]

\* A dated entry that lacks album (not flagged now playing).
NoAlbumTrack(nm, ts) == [artist |-> "a", name |-> nm, date |-> ts, url |-> "http"]

\* Shapes of history: all entries complete with strictly decreasing
\* timestamps, except for one entry at position pos:
\*   "tie"   same timestamp as its predecessor, another track name
\*   "dup"   identical to its predecessor (same identity key)
\*   "np"    a now-playing entry (always served first)
\*   "bad"   the album is missing
\*   "badnp" the album is missing and the track name contains 'nowplaying'
HistoryKinds == {"plain", "tie", "dup", "np", "bad", "badnp"}

\* Timestamp of entry i of n (1 = newest): one second per entry, except that
\* the entry at a tie position keeps its predecessor's second.
TsAt(n, low, tiepos, i) == low + (n - i) - (IF tiepos > i THEN 1 ELSE 0)

History(n, low, kind, pos) ==
    [i \in 1..n |->
        LET tiepos == IF kind \in {"tie", "dup"} THEN pos ELSE 0
            ts == TsAt(n, low, tiepos, i)
        IN  IF i # pos \/ kind = "plain" THEN RawTrack("t", ts)
            ELSE CASE kind = "tie"   -> RawTrack("u", ts)
                   [] kind = "dup"   -> RawTrack("t", ts)
                   [] kind = "np"    -> NowPlayingTrack
                   [] kind = "bad"   -> NoAlbumTrack("t", ts)
                   [] kind = "badnp" -> NoAlbumTrack("nowplaying", ts)]

RemoteHistories(longest) ==
    { History(n, low, "plain", 0) : n \in 0..longest, low \in LowTimestamps }
    \cup
    UNION { { History(n, low, kind, pos) :
                 pos \in (IF kind = "np" THEN {1}
                          ELSE IF kind \in {"tie", "dup"} THEN 2..n ELSE 1..n) } :
            n \in 1..longest, low \in LowTimestamps,
            kind \in HistoryKinds \ {"plain"} }

\* Raw loved tracks: artist is an object with name and/or #text.
LovedTrack(i) ==
    IF i = 1
    THEN [artist |-> [name |-> "a"], name |-> "f1", date |-> 7, mbid |-> "m", url |-> "u"]
    ELSE [artist |-> [text |-> "b"], name |-> "f2", mbid |-> "", url |-> "u"]

FavHistories == { [i \in 1..n |-> LovedTrack(i)] : n \in 0..MaxFav }

(* ------------------------------- state -------------------------------- *)
VARIABLES
    remote,          \* the account's recent tracks, newest first (static)
    favRemote,       \* the account's loved tracks (static)
    favFile,         \* favourites.json       [st, data]
    scrobFile,       \* scrobbles.json        [st, data]
    stateFile,       \* scrobbles_state.json  [st, data]
    pc,              \* position of the running process
    attempts,        \* _get: failed attempts of the call in progress
    delay,           \* _get: delay
    fav_total_pages, fav_page, favourites,
    state, tracks, seen, resume_to_ts, total, cur_page,
    exc,             \* the exception that ended the run, if any
    \* history variables (not program state)
    slept,           \* seconds slept by the last time.sleep of the call in progress
    prevRun,         \* the previous run in this directory: "none", "done"
                     \* (it completed) or "interrupted" (terminated or aborted)
    startScrob,      \* scrobbles.json as this run found it
    startState,      \* scrobbles_state.json as this run found it
    startFav,        \* favourites.json as this run found it
    favCalled,       \* this run sent a loved-tracks request
    favWrites,       \* times this run opened favourites.json for writing
    appended,        \* records this run appended to tracks
    skipped,         \* fetched records this run skipped as already seen
    ckptPages,       \* pages after which this run wrote both files
    lastSaved,       \* the two files as the last completed checkpoint of this
                     \* run left them (as the run found them, before its first)
    fetched          \* the recent-tracks pages answered in this run, in order

disk == <<favFile, scrobFile, stateFile>>
memory == <<attempts, delay, fav_total_pages, fav_page, favourites,
            state, tracks, seen, resume_to_ts, total, cur_page, exc>>
history == <<slept, prevRun, startScrob, startState, startFav, favCalled,
             favWrites, appended, skipped, ckptPages, lastSaved, fetched>>
vars == <<remote, favRemote, disk, pc, memory, history>>

(* ------------------------------- files -------------------------------- *)
\* A file is absent, holds what the last completed json.dump wrote ("ok"),
\* or was opened with mode "w" (truncated) and not yet written ("partial").
\* data is the JSON array of favourites.json and scrobbles.json, and the
\* optional JSON object of scrobbles_state.json.
Absent == [st |-> "absent", data |-> <<>>]
Partial == [st |-> "partial", data |-> <<>>]
Written(d) == [st |-> "ok", data |-> d]
AbsentState == [st |-> "absent", data |-> None]
PartialState == [st |-> "partial", data |-> None]
WrittenState(d) == [st |-> "ok", data |-> Some(d)]

\* os.path.exists
Exists(f) == f.st # "absent"

(* ----------------------------- remote API ----------------------------- *)
\* bool(x) of an optional integer: None and 0 are falsy.
Truthy(o) == o # None /\ o # Some(0)

\* The query of a recent-tracks URL: page and to are sent only when set.
\* A request without to is unbounded in time.
_build_recent_url(page, to_ts) ==
    [method |-> "user.getrecenttracks", user |-> USERNAME, limit |-> PageSize,
     page |-> page, to |-> IF Truthy(to_ts) THEN to_ts ELSE None]

\* The entries a recent-tracks query covers: the now-playing entry always,
\* a dated entry when the query has no to or its date is at or before to.
InWindow(t, url) ==
    \/ "date" \notin DOMAIN t
    \/ url.to = None
    \/ t.date <= Val(url.to)

Matching(url) == SelectSeq(remote, LAMBDA t : InWindow(t, url))

PagesOf(n, size) == (n + size - 1) \div size

PageOf(s, p, size) == SubSeq(s, (p - 1) * size + 1, Min(p * size, Len(s)))

\* data['recenttracks']['@attr']['totalPages']
get_pages(to_ts) ==
    PagesOf(Len(Matching(_build_recent_url(None, to_ts))), PageSize)

\* data['recenttracks']['track']
get_scrobbles(page, to_ts) ==
    PageOf(Matching(_build_recent_url(Some(page), to_ts)), page, PageSize)

get_loved_pages == PagesOf(Len(favRemote), FavPageSize)

get_loved_tracks(page) == PageOf(favRemote, page, FavPageSize)

(* --------------------------- pure helpers ----------------------------- *)
\* dict.get(f): the value, or None
Get(t, f) == IF f \in DOMAIN t THEN Some(t[f]) ELSE None

\* The identity key of a stored record, as the resume code builds it.
StoredKey(t) == <<Get(t, "artist"), Get(t, "name"), Get(t, "album"), Get(t, "date")>>

\* A raw track whose four fields can all be read (no KeyError).
Complete(track) == {"artist", "name", "album", "date"} \subseteq DOMAIN track

\* Mutant of MentionsNowPlaying: only the text values are searched, the
\* @attr flag is not seen.
MentionsNowPlaying_TextOnly(track) ==
    \E f \in DOMAIN track \cap {"artist", "name", "album"} : track[f] = "nowplaying"

\* 'nowplaying' in str(track): the @attr flag is a key of the dict, and str()
\* also prints every text value of the track.
MentionsNowPlaying(track) ==
    \/ "nowplaying" \in DOMAIN track
    \/ \E f \in DOMAIN track \cap {"artist", "name", "album"} : track[f] = "nowplaying"

\* Mutant of ProcessTrack: the `if key in seen: continue` test is gone.
ProcessTrack_NoDedup(acc, track) ==
    IF acc.raised THEN acc
    ELSE IF Complete(track)
    THEN [acc EXCEPT
            !.tracks = Append(@, [artist |-> track.artist, name |-> track.name,
                                  album |-> track.album, date |-> track.date]),
            !.seen = @ \cup {<<Some(track.artist), Some(track.name),
                               Some(track.album), Some(track.date)>>},
            !.appended = @ + 1]
    ELSE IF MentionsNowPlaying(track) THEN acc
    ELSE [acc EXCEPT !.raised = TRUE]

\* Mutant of ProcessTrack: tracks.insert(0, ...) instead of tracks.append(...).
ProcessTrack_Prepend(acc, track) ==
    IF acc.raised THEN acc
    ELSE IF Complete(track)
    THEN LET key == <<Some(track.artist), Some(track.name),
                      Some(track.album), Some(track.date)>>
         IN  IF key \in acc.seen
             THEN [acc EXCEPT !.skipped = @ + 1]
             ELSE [acc EXCEPT
                     !.tracks = <<[artist |-> track.artist, name |-> track.name,
                                   album |-> track.album, date |-> track.date]>> \o @,
                     !.seen = @ \cup {key},
                     !.appended = @ + 1]
    ELSE IF MentionsNowPlaying(track) THEN acc
    ELSE [acc EXCEPT !.raised = TRUE]

\* One iteration of `for track in response`; acc.raised stops the loop.
ProcessTrack(acc, track) ==
    IF acc.raised THEN acc
    ELSE IF Complete(track)
    THEN LET key == <<Some(track.artist), Some(track.name),
                      Some(track.album), Some(track.date)>>
         IN  IF key \in acc.seen
             THEN [acc EXCEPT !.skipped = @ + 1]
             ELSE [acc EXCEPT
                     !.tracks = Append(@, [artist |-> track.artist, name |-> track.name,
                                           album |-> track.album, date |-> track.date]),
                     !.seen = @ \cup {key},
                     !.appended = @ + 1]
    ELSE IF MentionsNowPlaying(track) THEN acc
    ELSE [acc EXCEPT !.raised = TRUE]

RECURSIVE ProcessPage(_, _)
ProcessPage(acc, response) ==
    IF response = <<>> THEN acc
    ELSE ProcessPage(ProcessTrack(acc, Head(response)), Tail(response))

\* The favourites' normaliser: every field read with .get.
Favourite(track) ==
    LET artist_obj == IF "artist" \in DOMAIN track THEN track.artist ELSE <<>>
        nm == Get(artist_obj, "name")
    IN  [artist |-> IF nm # None /\ nm # Some("") THEN nm ELSE Get(artist_obj, "text"),
         name |-> Get(track, "name"),
         date |-> Get(track, "date"),
         mbid |-> Get(track, "mbid"),
         url |-> Get(track, "url")]

RECURSIVE Favourites(_)
Favourites(loved_tracks) ==
    IF loved_tracks = <<>> THEN <<>>
    ELSE <<Favourite(Head(loved_tracks))>> \o Favourites(Tail(loved_tracks))

\* Mutant of load_state: the username comparison is gone.
load_state_AnyUser(username) ==
    IF ~Exists(stateFile) THEN None
    ELSE IF stateFile.st # "ok" THEN None
    ELSE stateFile.data

\* load_state(username) or {}: None stands for both None and {}.
load_state(username) ==
    IF ~Exists(stateFile) THEN None
    ELSE IF stateFile.st # "ok" THEN None
    ELSE IF Val(stateFile.data).username # username THEN None
    ELSE stateFile.data

\* Mutant of CheckpointDue: the `cur_page % 10 == 0` disjunct is gone.
CheckpointDue_FinalOnly(page, tot) == page = tot

\* The checkpoint condition of the page loop.
CheckpointDue(page, tot) == (page % CheckpointEvery = 0) \/ (page = tot)

Last(s) == s[Len(s)]

\* _get: the delay after a failed attempt.
NextDelay(d) == Min(d * 2, DelayCap)

NoException == [type |-> "none", at |-> "none"]

(* ------------------------------- Init --------------------------------- *)
FreshMemory ==
    /\ attempts = 0
    /\ delay = InitialDelay
    /\ fav_total_pages = 0
    /\ fav_page = 0
    /\ favourites = <<>>
    /\ state = None
    /\ tracks = <<>>
    /\ seen = {}
    /\ resume_to_ts = None
    /\ total = 0
    /\ cur_page = 0
    /\ exc = NoException

\* The same, of the process a (re)start creates.
ResetMemory ==
    /\ attempts' = 0
    /\ delay' = InitialDelay
    /\ fav_total_pages' = 0
    /\ fav_page' = 0
    /\ favourites' = <<>>
    /\ state' = None
    /\ tracks' = <<>>
    /\ seen' = {}
    /\ resume_to_ts' = None
    /\ total' = 0
    /\ cur_page' = 0
    /\ exc' = NoException

\* A first run in an empty working directory.
Init ==
    /\ remote \in RemoteHistories(MaxShort)
    /\ favRemote \in FavHistories
    /\ favFile = Absent
    /\ scrobFile = Absent
    /\ stateFile = AbsentState
    /\ pc = "start"
    /\ FreshMemory
    /\ slept = 0
    /\ prevRun = "none"
    /\ startScrob = Absent
    /\ startState = AbsentState
    /\ startFav = Absent
    /\ favCalled = FALSE
    /\ favWrites = 0
    /\ appended = 0
    /\ skipped = 0
    /\ ckptPages = {}
    /\ lastSaved = <<Absent, AbsentState>>
    /\ fetched = <<>>

\* A run in a working directory that holds favourites.json (an account without
\* loved tracks, dumped by an earlier run) and no scrobbles file yet.
InitResume ==
    /\ remote \in RemoteHistories(MaxRecords)
    /\ favRemote = <<>>
    /\ favFile = Written(<<>>)
    /\ scrobFile = Absent
    /\ stateFile = AbsentState
    /\ pc = "start"
    /\ FreshMemory
    /\ slept = 0
    /\ prevRun = "none"
    /\ startScrob = Absent
    /\ startState = AbsentState
    /\ startFav = Written(<<>>)
    /\ favCalled = FALSE
    /\ favWrites = 0
    /\ appended = 0
    /\ skipped = 0
    /\ ckptPages = {}
    /\ lastSaved = <<Absent, AbsentState>>
    /\ fetched = <<>>

\* What an earlier run of the script, for this account or for another one, can
\* have left as scrobbles.json: nothing, or the stored form of the history it
\* walked.
PriorOutputs ==
    {Absent} \cup
    { Written([i \in 1..n |-> [artist |-> "a", name |-> "t", album |-> "l",
                               date |-> TsAt(n, low, 0, i)]]) :
        n \in 1..MaxPrior, low \in LowTimestamps }

\* The scrobbles_state.json that goes with it: none, one whose write was cut
\* short (it does not parse), or the final checkpoint of that run, written for
\* this account or for the other one.
PriorCheckpoints(out) ==
    {AbsentState} \cup
    (IF out.st # "ok" THEN {}
     ELSE {PartialState} \cup
          { WrittenState([username |-> u,
                          last_page |-> PagesOf(Len(out.data), PageSize),
                          total_pages |-> PagesOf(Len(out.data), PageSize),
                          tracks_count |-> Len(out.data),
                          resume_to_ts |-> Some(Last(out.data).date)]) :
              u \in {USERNAME, OTHERNAME} })

\* A run in a working directory left by an earlier run: favourites.json is
\* there, scrobbles.json and scrobbles_state.json are what that run left.
InitCheckpoint ==
    /\ remote \in RemoteHistories(MaxShort)
    /\ favRemote = <<>>
    /\ favFile = Written(<<>>)
    /\ scrobFile \in PriorOutputs
    /\ stateFile \in PriorCheckpoints(scrobFile)
    /\ pc = "start"
    /\ FreshMemory
    /\ slept = 0
    /\ prevRun = "none"
    /\ startScrob = scrobFile
    /\ startState = stateFile
    /\ startFav = Written(<<>>)
    /\ favCalled = FALSE
    /\ favWrites = 0
    /\ appended = 0
    /\ skipped = 0
    /\ ckptPages = {}
    /\ lastSaved = <<scrobFile, stateFile>>
    /\ fetched = <<>>

(* ------------------------------ actions ------------------------------- *)
env == <<remote, favRemote>>
favMem == <<fav_total_pages, fav_page, favourites>>
scrobMem == <<state, tracks, seen, resume_to_ts, total, cur_page>>
getMem == <<attempts, delay, slept>>
runHist == <<prevRun, startScrob, startState, startFav>>
favHist == <<favCalled, favWrites>>
scrobHist == <<appended, skipped, ckptPages, lastSaved, fetched>>

FavCallSites == {"get_loved_pages", "get_loved_tracks"}
ScrobCallSites == {"get_pages", "get_scrobbles"}
CallSites == FavCallSites \cup ScrobCallSites
Terminal == {"done", "aborted", "terminated"}

\* Entering _get(url): delay = 1, no attempt made yet.
Call(site) ==
    /\ pc' = site
    /\ attempts' = 0
    /\ delay' = InitialDelay
    /\ slept' = 0

\* Mutant of FavouritesCheck: the os.path.exists test is gone.
FavouritesCheck_Always ==
    /\ pc = "start"
    /\ Call("get_loved_pages")
    /\ UNCHANGED <<env, disk, favMem, scrobMem, exc, runHist, favHist, scrobHist>>

\* if not os.path.exists(FAVOURITES_FILE): ... else: skip
FavouritesCheck ==
    /\ pc = "start"
    /\ IF Exists(favFile)
       THEN pc' = "scrobbles" /\ UNCHANGED getMem
       ELSE Call("get_loved_pages")
    /\ UNCHANGED <<env, disk, favMem, scrobMem, exc, runHist, favHist, scrobHist>>

\* fav_total_pages = get_loved_pages(...) answered; favourites = []; fav_page = 1
GetLovedPages ==
    /\ pc = "get_loved_pages"
    /\ fav_total_pages' = get_loved_pages
    /\ favourites' = <<>>
    /\ fav_page' = 1
    /\ favCalled' = TRUE
    /\ IF 1 <= fav_total_pages'
       THEN Call("get_loved_tracks")
       ELSE pc' = "open_favourites" /\ UNCHANGED getMem
    /\ UNCHANGED <<env, disk, scrobMem, exc, runHist, favWrites, scrobHist>>

\* loved_tracks = get_loved_tracks(..., fav_page) answered; the for loop; fav_page += 1
GetLovedTracks ==
    /\ pc = "get_loved_tracks"
    /\ favourites' = favourites \o Favourites(get_loved_tracks(fav_page))
    /\ fav_page' = fav_page + 1
    /\ favCalled' = TRUE
    /\ IF fav_page' <= fav_total_pages
       THEN Call("get_loved_tracks")
       ELSE pc' = "open_favourites" /\ UNCHANGED getMem
    /\ UNCHANGED <<env, disk, fav_total_pages, scrobMem, exc, runHist, favWrites, scrobHist>>

\* save_json(favourites, FAVOURITES_FILE): open(filename, "w") truncates
OpenFavourites ==
    /\ pc = "open_favourites"
    /\ favFile' = Partial
    /\ favWrites' = favWrites + 1
    /\ pc' = "dump_favourites"
    /\ UNCHANGED <<env, scrobFile, stateFile, favMem, scrobMem, getMem, exc,
                   runHist, favCalled, scrobHist>>

\* json.dump(favourites, f) and close
DumpFavourites ==
    /\ pc = "dump_favourites"
    /\ favFile' = Written(favourites)
    /\ pc' = "scrobbles"
    /\ UNCHANGED <<env, scrobFile, stateFile, favMem, scrobMem, getMem, exc,
                   runHist, favHist, scrobHist>>

\* Mutant of LoadScrobbles: a loaded checkpoint's resume_to_ts is used as the
\* resume point, the file's last record only without one.
LoadScrobbles_FromCheckpoint ==
    /\ pc = "scrobbles"
    /\ state' = load_state(USERNAME)
    /\ IF Exists(scrobFile) /\ scrobFile.st = "ok"
          /\ scrobFile.data # <<>> /\ "date" \in DOMAIN Last(scrobFile.data)
       THEN /\ tracks' = scrobFile.data
            /\ seen' = { StoredKey(scrobFile.data[i]) : i \in 1..Len(scrobFile.data) }
            /\ resume_to_ts' = (IF state' # None THEN Val(state').resume_to_ts
                                ELSE Some(Last(scrobFile.data).date - 1))
       ELSE /\ tracks' = <<>>
            /\ seen' = {}
            /\ resume_to_ts' = None
    /\ Call("get_pages")
    /\ UNCHANGED <<env, disk, favMem, total, cur_page, exc, runHist, favHist, scrobHist>>

\* Mutant of LoadScrobbles: the loop that fills `seen` from the file is gone.
LoadScrobbles_NoIndex ==
    /\ pc = "scrobbles"
    /\ state' = load_state(USERNAME)
    /\ seen' = {}
    /\ IF Exists(scrobFile) /\ scrobFile.st = "ok"
          /\ scrobFile.data # <<>> /\ "date" \in DOMAIN Last(scrobFile.data)
       THEN /\ tracks' = scrobFile.data
            /\ resume_to_ts' = Some(Last(scrobFile.data).date - 1)
       ELSE /\ tracks' = <<>>
            /\ resume_to_ts' = None
    /\ Call("get_pages")
    /\ UNCHANGED <<env, disk, favMem, total, cur_page, exc, runHist, favHist, scrobHist>>

\* state = load_state(username) or {}; the resume point from scrobbles.json
LoadScrobbles ==
    /\ pc = "scrobbles"
    /\ state' = load_state(USERNAME)
    /\ IF Exists(scrobFile) /\ scrobFile.st = "ok"
          /\ scrobFile.data # <<>> /\ "date" \in DOMAIN Last(scrobFile.data)
       THEN /\ tracks' = scrobFile.data
            /\ seen' = { StoredKey(scrobFile.data[i]) : i \in 1..Len(scrobFile.data) }
            /\ resume_to_ts' = Some(Last(scrobFile.data).date - 1)
       ELSE /\ tracks' = <<>>
            /\ seen' = {}
            /\ resume_to_ts' = None
    /\ Call("get_pages")
    /\ UNCHANGED <<env, disk, favMem, total, cur_page, exc, runHist, favHist, scrobHist>>

\* Mutant of NextPage: the `cur_page += 1` is gone.
NextPage_NoIncrement ==
    /\ cur_page' = cur_page
    /\ IF cur_page' <= total
       THEN Call("get_scrobbles")
       ELSE pc' = "done" /\ UNCHANGED getMem

\* cur_page += 1 and the loop test
NextPage ==
    /\ cur_page' = cur_page + 1
    /\ IF cur_page' <= total
       THEN Call("get_scrobbles")
       ELSE pc' = "done" /\ UNCHANGED getMem

\* total = get_pages(..., to_ts=resume_to_ts) answered; cur_page = 1
GetPages ==
    /\ pc = "get_pages"
    /\ total' = get_pages(resume_to_ts)
    /\ cur_page' = 1
    /\ IF 1 <= total'
       THEN Call("get_scrobbles")
       ELSE pc' = "done" /\ UNCHANGED getMem
    /\ UNCHANGED <<env, disk, favMem, state, tracks, seen, resume_to_ts, exc,
                   runHist, favHist, scrobHist>>

\* response = get_scrobbles(..., cur_page, to_ts=resume_to_ts) answered; the
\* for loop over the page; the checkpoint test
GetScrobbles ==
    /\ pc = "get_scrobbles"
    /\ LET r == ProcessPage([tracks |-> tracks, seen |-> seen, raised |-> FALSE,
                             appended |-> appended, skipped |-> skipped],
                            get_scrobbles(cur_page, resume_to_ts))
       IN  /\ tracks' = r.tracks
           /\ seen' = r.seen
           /\ appended' = r.appended
           /\ skipped' = r.skipped
           /\ fetched' = Append(fetched, cur_page)
           /\ IF r.raised
              THEN /\ pc' = "aborted"
                   /\ exc' = [type |-> "KeyError", at |-> pc]
                   /\ UNCHANGED <<cur_page, getMem>>
              ELSE /\ exc' = exc
                   /\ IF CheckpointDue(cur_page, total)
                      THEN pc' = "open_scrobbles" /\ UNCHANGED <<cur_page, getMem>>
                      ELSE NextPage
    /\ UNCHANGED <<env, disk, favMem, state, resume_to_ts, total, runHist, favHist,
                   ckptPages, lastSaved>>

\* save_partial_scrobbles(tracks, outfile): open(filename, "w") truncates
OpenScrobbles ==
    /\ pc = "open_scrobbles"
    /\ scrobFile' = Partial
    /\ pc' = "dump_scrobbles"
    /\ UNCHANGED <<env, favFile, stateFile, favMem, scrobMem, getMem, exc,
                   runHist, favHist, scrobHist>>

\* json.dump(tracks, f) and close
DumpScrobbles ==
    /\ pc = "dump_scrobbles"
    /\ scrobFile' = Written(tracks)
    /\ pc' = "open_state"
    /\ UNCHANGED <<env, favFile, stateFile, favMem, scrobMem, getMem, exc,
                   runHist, favHist, scrobHist>>

\* save_state(username, cur_page, total, len(tracks), oldest_ts): open(filename, "w")
OpenState ==
    /\ pc = "open_state"
    /\ stateFile' = PartialState
    /\ pc' = "dump_state"
    /\ UNCHANGED <<env, favFile, scrobFile, favMem, scrobMem, getMem, exc,
                   runHist, favHist, scrobHist>>

\* oldest_ts = int(newest_to_oldest[-1]['date']) if newest_to_oldest else None
oldest_ts == IF tracks # <<>> THEN Some(Last(tracks).date) ELSE None

\* json.dump(state, f) and close; cur_page += 1
DumpState ==
    /\ pc = "dump_state"
    /\ stateFile' = WrittenState([username |-> USERNAME, last_page |-> cur_page,
                                  total_pages |-> total, tracks_count |-> Len(tracks),
                                  resume_to_ts |-> oldest_ts])
    /\ ckptPages' = ckptPages \cup {cur_page}
    /\ lastSaved' = <<scrobFile, stateFile'>>
    /\ NextPage
    /\ UNCHANGED <<env, favFile, scrobFile, favMem, state, tracks, seen, resume_to_ts,
                   total, exc, runHist, favHist, appended, skipped, fetched>>

\* Mutant of HTTPError: a recent-tracks call that gives up first dumps the
\* records collected so far to scrobbles.json.
HTTPError_SavesScrobbles ==
    /\ pc \in CallSites
    /\ attempts' = attempts + 1
    /\ slept' = delay
    /\ delay' = NextDelay(delay)
    /\ favCalled' = (favCalled \/ pc \in FavCallSites)
    /\ IF attempts' >= MaxAttempts
       THEN /\ pc' = "aborted"
            /\ exc' = [type |-> "HTTPError", at |-> pc]
            /\ scrobFile' = (IF pc \in ScrobCallSites THEN Written(tracks) ELSE scrobFile)
       ELSE UNCHANGED <<pc, exc, scrobFile>>
    /\ UNCHANGED <<env, favFile, stateFile, favMem, scrobMem, runHist, favWrites, scrobHist>>

\* Mutant of HTTPError: a loved-tracks call that gives up is swallowed and the
\* favourites collected so far are saved.
HTTPError_SavesPartial ==
    /\ pc \in CallSites
    /\ attempts' = attempts + 1
    /\ slept' = delay
    /\ delay' = NextDelay(delay)
    /\ favCalled' = (favCalled \/ pc \in FavCallSites)
    /\ IF attempts' >= MaxAttempts
       THEN IF pc \in FavCallSites
            THEN pc' = "open_favourites" /\ UNCHANGED exc
            ELSE pc' = "aborted" /\ exc' = [type |-> "HTTPError", at |-> pc]
       ELSE UNCHANGED <<pc, exc>>
    /\ UNCHANGED <<env, disk, favMem, scrobMem, runHist, favWrites, scrobHist>>

\* _get: urlopen raises HTTPError; sleep, double the delay, and after
\* max_attempts failures raise last_exc
HTTPError ==
    /\ pc \in CallSites
    /\ attempts' = attempts + 1
    /\ slept' = delay
    /\ delay' = NextDelay(delay)
    /\ favCalled' = (favCalled \/ pc \in FavCallSites)
    /\ IF attempts' >= MaxAttempts
       THEN pc' = "aborted" /\ exc' = [type |-> "HTTPError", at |-> pc]
       ELSE UNCHANGED <<pc, exc>>
    /\ UNCHANGED <<env, disk, favMem, scrobMem, runHist, favWrites, scrobHist>>

\* _get: urlopen or json.loads raises something that is not an HTTPError
\* (URLError, ValueError): not caught, the run ends
OtherError ==
    /\ pc \in CallSites
    /\ pc' = "aborted"
    /\ exc' = [type |-> "URLError", at |-> pc]
    /\ favCalled' = (favCalled \/ pc \in FavCallSites)
    /\ attempts' = 0
    /\ delay' = InitialDelay
    /\ slept' = 0
    /\ UNCHANGED <<env, disk, favMem, scrobMem, runHist, favWrites, scrobHist>>

\* The process is terminated: its memory is gone, the files stay.
Crash ==
    /\ pc \notin Terminal
    /\ pc' = "terminated"
    /\ ResetMemory
    /\ slept' = 0
    /\ UNCHANGED <<env, disk, runHist, favHist, scrobHist>>

\* The script is invoked again in the same working directory.
Restart ==
    /\ pc \in Terminal
    /\ pc' = "start"
    /\ ResetMemory
    /\ slept' = 0
    /\ prevRun' = (IF pc = "done" THEN "done" ELSE "interrupted")
    /\ startScrob' = scrobFile
    /\ startState' = stateFile
    /\ startFav' = favFile
    /\ favCalled' = FALSE
    /\ favWrites' = 0
    /\ appended' = 0
    /\ skipped' = 0
    /\ ckptPages' = {}
    /\ lastSaved' = <<scrobFile, stateFile>>
    /\ fetched' = <<>>
    /\ UNCHANGED <<env, disk>>

Next ==
    \/ Crash
    \/ Restart
    \/ FavouritesCheck
    \/ GetLovedPages
    \/ GetLovedTracks
    \/ OpenFavourites
    \/ DumpFavourites
    \/ LoadScrobbles
    \/ GetPages
    \/ GetScrobbles
    \/ OpenScrobbles
    \/ DumpScrobbles
    \/ OpenState
    \/ DumpState
    \/ HTTPError
    \/ OtherError

\* The whole script.
Spec == Init /\ [][Next]_vars

\* Runs that find favourites.json: the favourites requests and writes cannot
\* happen.
NextResume ==
    \/ Crash
    \/ Restart
    \/ FavouritesCheck
    \/ LoadScrobbles
    \/ GetPages
    \/ GetScrobbles
    \/ OpenScrobbles
    \/ DumpScrobbles
    \/ OpenState
    \/ DumpState
    \/ HTTPError
    \/ OtherError

SpecResume == InitResume /\ [][NextResume]_vars

\* Runs in a directory left by an earlier run, for this or another account.
SpecCheckpoint == InitCheckpoint /\ [][NextResume]_vars

\* A step of the running script or of the remote answering it.
RunStep ==
    \/ FavouritesCheck
    \/ GetLovedPages
    \/ GetLovedTracks
    \/ OpenFavourites
    \/ DumpFavourites
    \/ LoadScrobbles
    \/ GetPages
    \/ GetScrobbles
    \/ OpenScrobbles
    \/ DumpScrobbles
    \/ OpenState
    \/ DumpState
    \/ HTTPError
    \/ OtherError

\* Runs that nobody terminates, one after the other.
NextRun == RunStep \/ Restart

\* The script is single-threaded and every call it makes blocks until it
\* returns or raises: a run that has not ended takes its next step.
SpecLive == Init /\ [][NextRun]_vars /\ WF_vars(RunStep)

(* ------------------------------ claims -------------------------------- *)
\* What one uninterrupted run over the whole history collects.
Uninterrupted ==
    ProcessPage([tracks |-> <<>>, seen |-> {}, raised |-> FALSE,
                 appended |-> 0, skipped |-> 0], remote)

\* Number of times record r occurs in sequence s.
Occurrences(s, r) == Cardinality({ j \in 1..Len(s) : s[j] = r })

\* The run in progress follows a run that stopped after it had written a
\* checkpoint (both files, completely) and before its next one.
ResumedAfterTermination ==
    /\ prevRun = "interrupted"
    /\ startScrob.st = "ok"
    /\ startScrob.data # <<>>
    /\ startState.st = "ok"
    /\ Val(startState.data).tracks_count = Len(startScrob.data)
    /\ Val(startState.data).last_page < Val(startState.data).total_pages

\* C1: a run that resumes after a termination that followed a checkpoint, and
\* completes, leaves an output file holding exactly the records of one
\* uninterrupted run, each once.
C1_CrashRecoveryComplete ==
    (pc = "done" /\ ResumedAfterTermination) =>
        /\ scrobFile.st = "ok"
        /\ \A i \in 1..Len(Uninterrupted.tracks) :
               Occurrences(scrobFile.data, Uninterrupted.tracks[i]) = 1
        /\ Len(scrobFile.data) = Len(Uninterrupted.tracks)

\* C2: a run that completes right after a completed run which left the records
\* of one uninterrupted run leaves scrobbles.json as it found it (same records,
\* same count) and appends nothing.
C2_IdempotentResume ==
    (pc = "done" /\ prevRun = "done" /\ startScrob.data = Uninterrupted.tracks) =>
        /\ scrobFile = startScrob
        /\ appended = 0

\* A second completed run that fetched records again and skipped them all.
C2_Witness ==
    /\ pc = "done"
    /\ prevRun = "done"
    /\ skipped >= 2
    /\ Len(scrobFile.data) >= 2

\* Every entry of s is a complete scrobble (none now playing, none malformed).
AllScrobbles(s) ==
    \A i \in 1..Len(s) : Complete(s[i]) /\ "nowplaying" \notin DOMAIN s[i]

\* C3: whenever both files are completely written (here: over a history of
\* complete scrobbles), the checkpoint's tracks_count is the number of records
\* of scrobbles.json.
C3_CheckpointCountMatchesOutput ==
    (stateFile.st = "ok" /\ scrobFile.st = "ok" /\ AllScrobbles(remote)) =>
        Val(stateFile.data).tracks_count = Len(scrobFile.data)

\* No two records of s have the same identity key.
NoDuplicateKeys(s) ==
    Cardinality({ StoredKey(s[i]) : i \in 1..Len(s) }) = Len(s)

\* C4: neither the collection in memory nor a written scrobbles.json holds an
\* identity key twice, in any run.
C4_NoDuplicateKeys ==
    /\ NoDuplicateKeys(tracks)
    /\ scrobFile.st = "ok" => NoDuplicateKeys(scrobFile.data)

\* A resumed run that skipped a fetched record and wrote the file.
C4_Witness ==
    /\ prevRun # "none"
    /\ skipped >= 1
    /\ appended >= 1
    /\ ckptPages # {}
    /\ scrobFile.st = "ok"

\* Pages of this run whose for loop has finished.
CompletedPages ==
    CASE pc = "get_scrobbles" -> cur_page - 1
      [] pc \in {"open_scrobbles", "dump_scrobbles", "open_state", "dump_state"} -> cur_page
      [] pc = "done" -> total
      [] OTHER -> 0

\* The last page after which this run wrote both files (0: none).
LastCheckpointed ==
    IF ckptPages = {} THEN 0 ELSE CHOOSE p \in ckptPages : \A q \in ckptPages : q <= p

\* C5: the files are written after page p iff p is a multiple of 10 or the
\* last page, and never more than 10 completed pages are un-checkpointed.
C5_CheckpointCadence ==
    /\ pc \in {"open_scrobbles", "dump_scrobbles", "open_state", "dump_state"} =>
           (cur_page % 10 = 0 \/ cur_page = total)
    /\ pc \in {"get_scrobbles", "done"} =>
           \A p \in 1..CompletedPages : p \in ckptPages <=> (p % 10 = 0 \/ p = total)
    /\ CompletedPages - LastCheckpointed <= 10

\* Page 11 of 12 is complete and un-checkpointed; page 10 was checkpointed.
C5_Witness ==
    /\ pc = "get_scrobbles"
    /\ cur_page = 12
    /\ total = 12
    /\ ckptPages = {10}

\* The stored form of complete raw tracks, in order.
Stored(s) ==
    [i \in 1..Len(s) |-> [artist |-> s[i].artist, name |-> s[i].name,
                          album |-> s[i].album, date |-> s[i].date]]

\* C6: a completed run that found no scrobbles.json, over N >= 1 pages of
\* scrobbles without repeated keys, leaves all of them in page order, with
\* tracks_count their number and last_page = N.
C6_FreshRunComplete ==
    (/\ pc = "done"
     /\ startScrob.st = "absent"
     /\ Len(remote) >= 1
     /\ AllScrobbles(remote)
     /\ NoDuplicateKeys(Stored(remote))) =>
        /\ scrobFile = Written(Stored(remote))
        /\ stateFile.st = "ok"
        /\ Val(stateFile.data).tracks_count = Len(remote)
        /\ Val(stateFile.data).last_page = PagesOf(Len(remote), PageSize)

\* A fresh run over three pages has completed.
C6_Witness ==
    /\ pc = "done"
    /\ startScrob.st = "absent"
    /\ AllScrobbles(remote)
    /\ NoDuplicateKeys(Stored(remote))
    /\ Len(scrobFile.data) = 3
    /\ stateFile.st = "ok"
    /\ Val(stateFile.data).last_page = PagesOf(3, PageSize)

\* The URL query of the request the run is about to send.
CurrentRequest ==
    _build_recent_url(IF pc = "get_pages" THEN None ELSE Some(cur_page), resume_to_ts)

\* C7: with a checkpoint whose resume_to_ts is T (here: T >= 2) and whose
\* output file is intact, every recent-tracks request of the next run carries
\* to = T.
C7_RequestsBoundedByCheckpointCutoff ==
    (/\ pc \in ScrobCallSites
     /\ state # None
     /\ startScrob.st = "ok"
     /\ Len(startScrob.data) = Val(state).tracks_count
     /\ Val(state).resume_to_ts # None
     /\ Val(Val(state).resume_to_ts) >= 2) =>
        CurrentRequest.to = Val(state).resume_to_ts

\* The run is past the favourites phase.
InScrobblesPhase ==
    \/ pc \in {"scrobbles", "get_pages", "get_scrobbles", "open_scrobbles",
               "dump_scrobbles", "open_state", "dump_state", "done"}
    \/ pc = "aborted" /\ exc.at \in ScrobCallSites

\* C8: a run that finds favourites.json sends no loved-tracks request, never
\* opens the file for writing and leaves it as it found it.
C8_FavouritesShortCircuit ==
    Exists(startFav) =>
        /\ ~favCalled
        /\ favWrites = 0
        /\ favFile = startFav
        /\ pc \notin FavCallSites \cup {"open_favourites", "dump_favourites"}

\* A run that found favourites.json, left by an earlier run, has completed.
C8_Witness ==
    /\ prevRun # "none"
    /\ Exists(startFav)
    /\ pc = "done"
    /\ total >= 1

\* C9: a run whose loved-tracks call fails for good leaves no favourites.json;
\* the file is opened for writing at most once per run and only with all pages
\* collected; a run that finds no favourites.json collects from page 1 and
\* reaches the scrobbles only with the complete file written.
C9_NoPartialFavourites ==
    /\ (pc = "aborted" /\ exc.at \in FavCallSites) => (favFile = Absent /\ favWrites = 0)
    /\ favWrites <= 1
    /\ (favWrites = 1 /\ pc # "terminated") =>
           (fav_page = fav_total_pages + 1 /\ favourites = Favourites(favRemote))
    /\ pc = "get_loved_tracks" =>
           (/\ ~Exists(startFav)
            /\ fav_page >= 1
            /\ favourites = Favourites(SubSeq(favRemote, 1, (fav_page - 1) * FavPageSize)))
    /\ (~Exists(startFav) /\ InScrobblesPhase) =>
           (favCalled /\ favFile = Written(Favourites(favRemote)))

\* After a run that gave up on a loved-tracks call, the next run is fetching
\* page 1 again and there is still no favourites.json.
C9_Witness ==
    /\ prevRun = "interrupted"
    /\ ~Exists(startFav)
    /\ scrobFile = Absent
    /\ pc = "get_loved_tracks"
    /\ fav_page = 1
    /\ fav_total_pages >= 2
    /\ favFile = Absent

RECURSIVE Pow2(_)
Pow2(n) == IF n = 0 THEN 1 ELSE 2 * Pow2(n - 1)

\* C10: a call makes at most 5 attempts; its delay starts at 1 and doubles per
\* failure up to 60; it sleeps that delay after each failure; only the fifth
\* failure in a row is propagated, and nothing is attempted after it.
C10_BoundedRetry ==
    /\ attempts <= 5
    /\ pc \in CallSites => attempts <= 4
    /\ delay = Min(Pow2(attempts), 60)
    /\ slept = (IF attempts = 0 THEN 0 ELSE Min(Pow2(attempts - 1), 60))
    /\ (pc = "aborted" /\ exc.type = "HTTPError") => attempts = 5
    /\ attempts = 5 => (pc = "aborted" /\ exc.type = "HTTPError")

\* A call has failed five times (sleeping 1, 2, 4, 8, 16 s) and given up.
C10_Witness ==
    /\ pc = "aborted"
    /\ exc.type = "HTTPError"
    /\ exc.at = "get_scrobbles"
    /\ cur_page = 2
    /\ attempts = 5
    /\ slept = 16

\* A raw entry without a play timestamp that carries the now-playing flag.
IsNowPlaying(t) == "date" \notin DOMAIN t /\ "nowplaying" \in DOMAIN t

WithoutNowPlaying(s) == SelectSeq(s, LAMBDA t : ~IsNowPlaying(t))

\* The page the request in progress is answered with.
CurrentPage == get_scrobbles(cur_page, resume_to_ts)

\* C11: processing a fetched page leaves the collection and the index as the
\* same page without its now-playing entries would, and aborts only if that
\* page would; no stored record is dateless and no key of the index lacks a
\* date.
C11_NowPlayingSkipped ==
    [][GetScrobbles =>
          LET acc == [tracks |-> tracks, seen |-> seen, raised |-> FALSE,
                      appended |-> appended, skipped |-> skipped]
              without == ProcessPage(acc, WithoutNowPlaying(CurrentPage))
          IN  /\ tracks' = without.tracks
              /\ seen' = without.seen
              /\ appended' = without.appended
              /\ (pc' = "aborted") <=> without.raised
              /\ \A i \in 1..Len(tracks') : "date" \in DOMAIN tracks'[i]
              /\ \A k \in seen' : k[4] # None]_vars

\* A run over a history that starts with a now-playing entry has completed
\* and stored every other entry.
C11_Witness ==
    /\ pc = "done"
    /\ Len(remote) >= 2
    /\ IsNowPlaying(remote[1])
    /\ appended = Len(remote) - 1
    /\ scrobFile = Written(Stored(Tail(remote)))

\* A raw entry that is not a now-playing marker and lacks a required field.
Malformed(t) == ~IsNowPlaying(t) /\ ~Complete(t)

\* C12: a fetched page that holds a malformed entry aborts the run with the
\* KeyError, and the entry is neither appended nor indexed.
C12_MalformedIsFatal ==
    [][(GetScrobbles /\ \E i \in 1..Len(CurrentPage) : Malformed(CurrentPage[i])) =>
          /\ pc' = "aborted"
          /\ exc'.type = "KeyError"
          /\ Len(tracks') < Len(tracks) + Len(CurrentPage)]_vars

\* The run has executed `state = load_state(username) or {}` and still holds
\* the result.
StateLoaded ==
    \/ pc \in {"get_pages", "get_scrobbles", "open_scrobbles", "dump_scrobbles",
               "open_state", "dump_state", "done"}
    \/ pc = "aborted" /\ exc.at \in ScrobCallSites

\* C13: the loaded checkpoint is Absent when the run found no checkpoint file,
\* one that does not parse, or one of another account, and is the stored
\* checkpoint otherwise; loading never ends the run (the step after it is the
\* total-page query).
C13_CheckpointLoad ==
    /\ StateLoaded =>
          /\ startState.st = "absent" => state = None
          /\ startState.st = "partial" => state = None
          /\ (startState.st = "ok" /\ Val(startState.data).username # USERNAME) =>
                 state = None
          /\ (startState.st = "ok" /\ Val(startState.data).username = USERNAME) =>
                 state = startState.data
    /\ pc = "aborted" => exc.at # "scrobbles"

\* A run that found another account's checkpoint has loaded Absent, gone on
\* and completed.
C13_Witness ==
    /\ pc = "done"
    /\ startState.st = "ok"
    /\ Val(startState.data).username = OTHERNAME
    /\ state = None
    /\ stateFile.st = "ok"
    /\ Val(stateFile.data).username = USERNAME

\* The run found a readable scrobbles.json that holds records.
StartedWithRecords == startScrob.st = "ok" /\ startScrob.data # <<>>

\* C14: every recent-tracks request (the total-page query and each page) of a
\* run that found stored records carries to = (oldest stored timestamp) - 1,
\* and no request of a run that found none carries to.
C14_ResumeBoundOnEveryRequest ==
    pc \in ScrobCallSites =>
        IF StartedWithRecords
        THEN CurrentRequest.to = Some(Last(startScrob.data).date - 1)
        ELSE CurrentRequest.to = None

\* C15: a completed run has written scrobbles.json and the checkpoint after
\* its last page: the file holds the final collection, last_page is the total
\* page count and tracks_count the size of the collection.
C15_CompletionImpliesFinalCheckpoint ==
    pc = "done" =>
        /\ total \in ckptPages
        /\ scrobFile = Written(tracks)
        /\ stateFile.st = "ok"
        /\ Val(stateFile.data).last_page = total
        /\ Val(stateFile.data).total_pages = total
        /\ Val(stateFile.data).tracks_count = Len(tracks)

\* The scrobbles phase of this run has ended with a propagated exception.
ScrobblesAborted == pc = "aborted" /\ exc.at \in ScrobCallSites

\* C16: when the scrobbles phase aborts (a call that gave up, or a malformed
\* entry), the two files are what the last completed checkpoint of the run
\* left, or what the run found if it completed none; the checkpoint names the
\* last checkpointed page, and the output is the collection as it was then,
\* without the records appended since.
C16_AbortPreservesLastCheckpoint ==
    ScrobblesAborted =>
        /\ <<scrobFile, stateFile>> = lastSaved
        /\ ckptPages = {} => (scrobFile = startScrob /\ stateFile = startState)
        /\ ckptPages # {} =>
              /\ scrobFile.st = "ok"
              /\ stateFile.st = "ok"
              /\ Val(stateFile.data).last_page = LastCheckpointed
              /\ Len(scrobFile.data) <= Len(tracks)
              /\ scrobFile.data = SubSeq(tracks, 1, Len(scrobFile.data))

\* Page 12 held a malformed entry: the run aborted with the KeyError after the
\* checkpoint of page 10, and the record of page 11 is in memory only.
C16_Witness ==
    /\ ScrobblesAborted
    /\ exc.type = "KeyError"
    /\ ckptPages = {10}
    /\ cur_page = 12
    /\ Len(tracks) = Len(scrobFile.data) + 1

\* Timestamps never increase along s.
NewestFirst(s) == \A i \in 1..(Len(s) - 1) : s[i].date >= s[i + 1].date

\* C17: a written scrobbles.json is ordered newest to oldest, in first runs and
\* after any number of interrupted and resumed runs, so its last record is an
\* oldest stored record.
C17_OutputNewestFirst ==
    scrobFile.st = "ok" =>
        /\ NewestFirst(scrobFile.data)
        /\ \A i \in 1..Len(scrobFile.data) :
               Last(scrobFile.data).date <= scrobFile.data[i].date

\* The run of the scrobbles phase as a function of the scrobbles.json it found
\* and of the remote history alone: the resume point, the entries its requests
\* cover, and the collection after k pages.
OutputResumePoint ==
    IF StartedWithRecords THEN Some(Last(startScrob.data).date - 1) ELSE None

OutputWindow == Matching(_build_recent_url(None, OutputResumePoint))

CollectedAfter(k) ==
    LET loaded == IF StartedWithRecords THEN startScrob.data ELSE <<>>
    IN  ProcessPage([tracks |-> loaded,
                     seen |-> { StoredKey(loaded[i]) : i \in 1..Len(loaded) },
                     raised |-> FALSE, appended |-> 0, skipped |-> 0],
                    SubSeq(OutputWindow, 1, Min(k * PageSize, Len(OutputWindow)))).tracks

\* C18: whatever checkpoint file a run finds (none, one that does not parse,
\* another account's, a valid one), its resume point, its requests, its page
\* count, its collection and every scrobbles.json it writes are the values
\* determined by the scrobbles.json it found and the remote history; so two
\* runs that differ in the checkpoint file only do the same.
C18_CheckpointNeverInfluencesRun ==
    StateLoaded =>
        /\ resume_to_ts = OutputResumePoint
        /\ pc \in ScrobCallSites =>
               CurrentRequest =
                   _build_recent_url(IF pc = "get_pages" THEN None ELSE Some(cur_page),
                                     OutputResumePoint)
        /\ (pc # "get_pages" /\ ~(pc = "aborted" /\ exc.at = "get_pages")) =>
               total = PagesOf(Len(OutputWindow), PageSize)
        /\ pc \in {"get_scrobbles", "open_scrobbles", "dump_scrobbles",
                   "open_state", "dump_state", "done"} =>
               tracks = CollectedAfter(CompletedPages)
        /\ pc \in {"open_state", "dump_state"} =>
               scrobFile = Written(CollectedAfter(cur_page))
        /\ (ckptPages # {} /\ pc \in {"get_scrobbles", "done", "aborted"}) =>
               scrobFile = Written(CollectedAfter(LastCheckpointed))
        /\ (ckptPages = {} /\ pc \in {"get_pages", "get_scrobbles", "done", "aborted"}) =>
               scrobFile = startScrob

\* A run that found stored records and a valid checkpoint of this account has
\* loaded the checkpoint, fetched the window below the stored records and
\* written the longer file.
C18_Witness ==
    /\ pc = "done"
    /\ prevRun = "none"
    /\ state # None
    /\ Val(state).tracks_count = Len(startScrob.data)
    /\ StartedWithRecords
    /\ appended >= 1
    /\ ckptPages # {}
    /\ Len(scrobFile.data) > Len(startScrob.data)

\* The oldest timestamp of a non-empty stored collection.
Oldest(s) == CHOOSE d \in { s[i].date : i \in 1..Len(s) } :
                 \A i \in 1..Len(s) : d <= s[i].date

\* C19: in a run that found stored records, every record appended to the
\* collection is older than the oldest record the run found.
C19_ResumeExtendsBackwards ==
    (StateLoaded /\ StartedWithRecords) =>
        \A i \in (Len(startScrob.data) + 1)..Len(tracks) :
            tracks[i].date < Oldest(startScrob.data)

\* C20: a run that nobody terminates ends, completed or aborted by a
\* propagated exception; the pages answered are 1, 2, ... in increasing order,
\* each once, and all of 1..total when the run completes; a page is requested
\* at most 5 times; the page index never decreases within a run.
C20_Termination ==
    /\ [](/\ fetched = [i \in 1..Len(fetched) |-> i]
          /\ pc = "done" => Len(fetched) = total
          /\ pc \in CallSites => attempts + 1 <= 5
          /\ attempts <= 5
          /\ pc = "aborted" => exc.type \in {"HTTPError", "URLError", "KeyError"})
    /\ [][pc' # "start" => (cur_page' >= cur_page /\ fav_page' >= fav_page)]_vars
    /\ (pc = "start" ~> pc \in {"done", "aborted"})

\* After a run that an exception ended, a run has survived four failures of
\* its last page request and completed with pages 1, 2, 3 answered.
C20_Witness ==
    /\ prevRun = "interrupted"
    /\ pc = "done"
    /\ total = 3
    /\ fetched = <<1, 2, 3>>
    /\ cur_page = 4
    /\ attempts = 4

====
